---- MODULE Spec2Model ----
(***************************************************************************)
(* A model of Fitbit_Fetch.py: the date partitioner of the bulk update,    *)
(* the retrying API request with its token store, the point buffer and     *)
(* its flush, and the two modes of the process (scheduled polling and      *)
(* bulk update).                                                           *)
(*                                                                         *)
(* Three specifications share the module:                                  *)
(*   SpecPartition  yield_dates_with_gap, one generator step per action    *)
(*   SpecRequest    one call of fitbit_data_request, one attempt per step  *)
(*   Spec           the process: startup_update, the polling loop, the     *)
(*                  bulk update, write_points and the interrupt            *)
(* Dates are day ordinals: date_list[i] is day i+1 of the range, so the    *)
(* range 2024-01-01..2024-01-10 is the ordinals 1..10.                     *)
(***************************************************************************)
EXTENDS Integers, Sequences, FiniteSets, TLC

VARIABLES
    \* ---- yield_dates_with_gap (SpecPartition)
    n_days,        \* len(date_list)
    gap,           \* the gap argument
    start_index,   \* the generator's start_index
    chunks,        \* the chunks yielded so far, as <<start date, end date>>
    gen_pc,        \* "loop" while the generator can be resumed, "done" after
    \* ---- fitbit_data_request and the token file (SpecRequest)
    stack,         \* the active calls of fitbit_data_request, innermost last
    token_file,    \* TOKEN_FILE_PATH: its state, the access token, expiry - now
    result,        \* what the outermost call gave its caller ("pending" before)
    slept,         \* seconds spent in time.sleep since the outermost call began
    outcomes,      \* the outcome of each HTTP call of the outermost call
    sent_stale,    \* a Bearer token was sent after its expiry_timestamp passed
    refresh_calls, \* calls of refresh_fitbit_token since the outermost call began
    file0,         \* the token file as the outermost call found it
    \* ---- the process (Spec)
    auto_date_range,     \* AUTO_DATE_RANGE: scheduled polling, else bulk update
    eager_annotations,   \* the interpreter evaluates annotations at the def
    date_count,          \* len(date_list) in startup_update
    scheduled,           \* setup_schedulers has registered the jobs
    pc,                  \* where the process is
    points,              \* self.points, as point ids in append order
    next_id,             \* the number of points built so far
    sink,                \* the points the database accepted, in order
    exc,                 \* the exception the process ended with, or "none"
    interrupt_at,        \* the phase a KeyboardInterrupt arrived in, or "none"
    points_at_interrupt, \* self.points when it arrived
    final_flush_calls,   \* calls of write_points made by the finally clause
    final_batch,         \* the points the finally clause handed to write_api
    flush_log,           \* the last call of write_points: before, ok, after
    fetch_log,           \* the last request of a fetch: its result and effect
    sink_failed,         \* some write to the database has failed
    end_date             \* self.end_date, in days after the day of startup

partVars == <<n_days, gap, start_index, chunks, gen_pc>>
reqVars == <<stack, token_file, result, slept, outcomes, sent_stale,
             refresh_calls, file0>>
orchVars == <<auto_date_range, eager_annotations, date_count, scheduled, pc,
              points, next_id, sink, exc, interrupt_at, points_at_interrupt,
              final_flush_calls, final_batch, flush_log, fetch_log, sink_failed,
              end_date>>
vars == <<partVars, reqVars, orchVars>>

\* ------------------------------------------------------------------ bounds
MaxDays == 10
MaxGap == 6
MaxDepth == 3      \* nesting of fitbit_data_request calls the model follows
MaxRange == 2      \* days in the date list of the process
MaxPoints == 3     \* points the fetches build in one run of the process
MaxRollover == 1   \* midnights the polling loop runs through

\* -------------------------------------------------------- program constants
MAX_RETRIES == 3
RATELIMIT_EXTRA_SLEEP == 15
UNAUTHORIZED_SLEEP == 30
SERVER_ERROR_SLEEP == 120
RETRY_SLEEP == 30
EXPIRY_MARGIN == 300
SPAN_365D == 360
SPAN_100D == 98
SPAN_30D == 28
LIMIT_365D == 365
LIMIT_100D == 100
LIMIT_30D == 30

\* ------------------------------------------------- yield_dates_with_gap
\* date_list[i] (0-based, as in the source) of a range starting at day 1.
DateAt(i) == i + 1

\* Lengths of date_list beyond 1..MaxDays: around each bulk span, and longer.
LongRanges == {29, 30, 57, 99, 100, 197, 361, 362, 400}

\* The spans startup_update partitions date_list with in the bulk update.
BulkSpans == {SPAN_365D, SPAN_100D, SPAN_30D}

\* The most days the docstring of the fetch a span is used for allows in one
\* query.
QueryLimit(g) ==
    CASE g = SPAN_365D -> LIMIT_365D
      [] g = SPAN_100D -> LIMIT_100D
      [] g = SPAN_30D -> LIMIT_30D

\* GenNext with end_index always set to the last index.
GenNext_ClampAlways(n, g, si) ==
    IF si < n - 1
    THEN LET s2 == si + g
         IN  IF s2 > n - 1
             THEN [stop |-> TRUE, start_index |-> s2, chunk |-> <<>>]
             ELSE [stop |-> FALSE, start_index |-> s2,
                   chunk |-> <<DateAt(s2), DateAt(n - 1)>>]
    ELSE [stop |-> TRUE, start_index |-> si, chunk |-> <<>>]

\* GenNext without the clamp of end_index to the last index.
GenNext_NoClamp(n, g, si) ==
    IF si < n - 1
    THEN LET s2 == si + g
             e0 == s2 + g
         IN  IF s2 > n - 1
             THEN [stop |-> TRUE, start_index |-> s2, chunk |-> <<>>]
             ELSE [stop |-> FALSE, start_index |-> s2,
                   chunk |-> <<DateAt(s2), DateAt(e0)>>]
    ELSE [stop |-> TRUE, start_index |-> si, chunk |-> <<>>]

\* One resumption of the generator from start_index = si over a list of n
\* dates: the loop test, the two index updates, the clamp of end_index, the
\* break, and the yield.
GenNext(n, g, si) ==
    IF si < n - 1
    THEN LET s2 == si + g
             e0 == s2 + g
             e1 == IF e0 > n - 1 THEN n - 1 ELSE e0
         IN  IF s2 > n - 1
             THEN [stop |-> TRUE, start_index |-> s2, chunk |-> <<>>]
             ELSE [stop |-> FALSE, start_index |-> s2,
                   chunk |-> <<DateAt(s2), DateAt(e1)>>]
    ELSE [stop |-> TRUE, start_index |-> si, chunk |-> <<>>]

\* The request variables while no request is modelled.
ReqOff ==
    /\ stack = <<>>
    /\ token_file = [state |-> "absent", access_token |-> 0, ttl |-> 0]
    /\ result = "pending"
    /\ slept = 0
    /\ outcomes = <<>>
    /\ sent_stale = FALSE
    /\ refresh_calls = 0
    /\ file0 = token_file

NoFlush ==
    [called |-> FALSE, before |-> <<>>, ok |-> TRUE, after |-> <<>>,
     raised |-> FALSE, batch |-> <<>>]
NoFetch == [fn |-> "", res |-> "", effect |-> ""]
Pc(at, fn, req, nb, i) == [at |-> at, fn |-> fn, req |-> req, nb |-> nb, i |-> i]

\* The variables of the process while no process is modelled.
OrchOff ==
    /\ auto_date_range = TRUE
    /\ eager_annotations = FALSE
    /\ date_count = 1
    /\ scheduled = FALSE
    /\ pc = Pc("exit", "", 0, FALSE, 0)
    /\ points = <<>>
    /\ next_id = 0
    /\ sink = <<>>
    /\ exc = "none"
    /\ interrupt_at = "none"
    /\ points_at_interrupt = <<>>
    /\ final_flush_calls = 0
    /\ final_batch = <<>>
    /\ flush_log = NoFlush
    /\ fetch_log = NoFetch
    /\ sink_failed = FALSE
    /\ end_date = 0

\* The partitioner's variables while no partition is modelled.
PartOff ==
    /\ n_days = 1
    /\ gap = 1
    /\ start_index = -1
    /\ chunks = <<>>
    /\ gen_pc = "done"

PartInit ==
    /\ n_days \in (1..MaxDays) \cup LongRanges
    /\ gap \in (1..MaxGap) \cup BulkSpans
    /\ start_index = -1 * gap
    /\ chunks = <<>>
    /\ gen_pc = "loop"
    /\ ReqOff
    /\ OrchOff

\* The generator yields a chunk.
GenYield ==
    /\ gen_pc = "loop"
    /\ LET r == GenNext(n_days, gap, start_index)
       IN  /\ ~r.stop
           /\ start_index' = r.start_index
           /\ chunks' = Append(chunks, r.chunk)
    /\ UNCHANGED <<n_days, gap, gen_pc>>
    /\ UNCHANGED <<reqVars, orchVars>>

\* The generator is exhausted: the loop test fails or the break is taken.
GenStop ==
    /\ gen_pc = "loop"
    /\ LET r == GenNext(n_days, gap, start_index)
       IN  /\ r.stop
           /\ start_index' = r.start_index
    /\ gen_pc' = "done"
    /\ UNCHANGED <<n_days, gap, chunks>>
    /\ UNCHANGED <<reqVars, orchVars>>

PartNext == GenYield \/ GenStop

SpecPartition == PartInit /\ [][PartNext]_vars

\* ---------------------------------------- fitbit_data_request, token file
\* What one requests.request can give: a ConnectionError (status 0) or a
\* response with a status; a 429 comes with or without a Retry-After header
\* (retry_after = -1: no header).
Statuses == {200, 204, 304, 401, 404, 429, 500, 501, 502, 503, 504}
RetryAfters == {0, 5, 60}
NoHeader == -1
ConnectionError == [status |-> 0, retry_after |-> NoHeader]
Outcomes ==
    {ConnectionError}
        \cup {[status |-> s, retry_after |-> NoHeader] : s \in Statuses}
        \cup {[status |-> 429, retry_after |-> r] : r \in RetryAfters}

\* expiry_timestamp - now of the token file at the start of the call, and the
\* expires_in the token endpoint answers with.
InitialTTLs == {-1, 0, 40, 28500}
ExpiresIn == {28800}

\* raise_for_status left out: no status raises.
RaiseForStatus_Never(status) == FALSE

\* response.raise_for_status(): an HTTPError for a 4xx or 5xx status.
RaiseForStatus(status) == status >= 400 /\ status < 600

\* Classify with the first branch testing for any 2xx status.
Classify_Any2xxBody(o) ==
    IF o.status = 0
    THEN [kind |-> "retry", sleep |-> 0, bound |-> FALSE, exc |-> "none"]
    ELSE IF o.status >= 200 /\ o.status < 300
    THEN [kind |-> "return_body", sleep |-> 0, bound |-> TRUE, exc |-> "none"]
    ELSE IF o.status = 429
    THEN IF o.retry_after = NoHeader
         THEN [kind |-> "raise", sleep |-> 0, bound |-> TRUE, exc |-> "KeyError"]
         ELSE [kind |-> "retry", sleep |-> o.retry_after + RATELIMIT_EXTRA_SLEEP,
               bound |-> TRUE, exc |-> "none"]
    ELSE IF o.status = 401
    THEN [kind |-> "retry", sleep |-> UNAUTHORIZED_SLEEP, bound |-> TRUE,
          exc |-> "none"]
    ELSE IF o.status \in {500, 502, 503, 504}
    THEN [kind |-> "retry", sleep |-> SERVER_ERROR_SLEEP, bound |-> TRUE,
          exc |-> "none"]
    ELSE IF o.status >= 400 /\ o.status < 600
    THEN [kind |-> "raise", sleep |-> 0, bound |-> TRUE, exc |-> "HTTPError"]
    ELSE [kind |-> "return_none", sleep |-> 0, bound |-> TRUE, exc |-> "none"]

\* Classify with the 200 branch falling through to the retry.
Classify_OkRetried(o) ==
    IF o.status = 0
    THEN [kind |-> "retry", sleep |-> 0, bound |-> FALSE, exc |-> "none"]
    ELSE IF o.status = 200
    THEN [kind |-> "retry", sleep |-> 0, bound |-> TRUE, exc |-> "none"]
    ELSE IF o.status = 429
    THEN IF o.retry_after = NoHeader
         THEN [kind |-> "raise", sleep |-> 0, bound |-> TRUE, exc |-> "KeyError"]
         ELSE [kind |-> "retry", sleep |-> o.retry_after + RATELIMIT_EXTRA_SLEEP,
               bound |-> TRUE, exc |-> "none"]
    ELSE IF o.status = 401
    THEN [kind |-> "retry", sleep |-> UNAUTHORIZED_SLEEP, bound |-> TRUE,
          exc |-> "none"]
    ELSE IF o.status \in {500, 502, 503, 504}
    THEN [kind |-> "retry", sleep |-> SERVER_ERROR_SLEEP, bound |-> TRUE,
          exc |-> "none"]
    ELSE IF o.status >= 400 /\ o.status < 600
    THEN [kind |-> "raise", sleep |-> 0, bound |-> TRUE, exc |-> "HTTPError"]
    ELSE [kind |-> "return_none", sleep |-> 0, bound |-> TRUE, exc |-> "none"]

\* Classify with the 429 branch not sleeping before it falls through.
Classify_RateLimitNoSleep(o) ==
    IF o.status = 0
    THEN [kind |-> "retry", sleep |-> 0, bound |-> FALSE, exc |-> "none"]
    ELSE IF o.status = 200
    THEN [kind |-> "return_body", sleep |-> 0, bound |-> TRUE, exc |-> "none"]
    ELSE IF o.status = 429
    THEN IF o.retry_after = NoHeader
         THEN [kind |-> "raise", sleep |-> 0, bound |-> TRUE, exc |-> "KeyError"]
         ELSE [kind |-> "retry", sleep |-> 0, bound |-> TRUE, exc |-> "none"]
    ELSE IF o.status = 401
    THEN [kind |-> "retry", sleep |-> UNAUTHORIZED_SLEEP, bound |-> TRUE,
          exc |-> "none"]
    ELSE IF o.status \in {500, 502, 503, 504}
    THEN [kind |-> "retry", sleep |-> SERVER_ERROR_SLEEP, bound |-> TRUE,
          exc |-> "none"]
    ELSE IF o.status >= 400 /\ o.status < 600
    THEN [kind |-> "raise", sleep |-> 0, bound |-> TRUE, exc |-> "HTTPError"]
    ELSE [kind |-> "return_none", sleep |-> 0, bound |-> TRUE, exc |-> "none"]

\* Classify without the 401 branch: a 401 reaches raise_for_status.
Classify_UnauthorizedFatal(o) ==
    IF o.status = 0
    THEN [kind |-> "retry", sleep |-> 0, bound |-> FALSE, exc |-> "none"]
    ELSE IF o.status = 200
    THEN [kind |-> "return_body", sleep |-> 0, bound |-> TRUE, exc |-> "none"]
    ELSE IF o.status = 429 /\ o.retry_after # NoHeader
    THEN [kind |-> "retry", sleep |-> o.retry_after + RATELIMIT_EXTRA_SLEEP,
          bound |-> TRUE, exc |-> "none"]
    ELSE IF o.status \in {500, 502, 503, 504}
    THEN [kind |-> "retry", sleep |-> SERVER_ERROR_SLEEP, bound |-> TRUE,
          exc |-> "none"]
    ELSE [kind |-> "raise", sleep |-> 0, bound |-> TRUE, exc |-> "HTTPError"]

\* Classify without the server-error branch: a 500, 502, 503 or 504 reaches
\* raise_for_status.
Classify_ServerErrorFatal(o) ==
    IF o.status = 0
    THEN [kind |-> "retry", sleep |-> 0, bound |-> FALSE, exc |-> "none"]
    ELSE IF o.status = 200
    THEN [kind |-> "return_body", sleep |-> 0, bound |-> TRUE, exc |-> "none"]
    ELSE IF o.status = 429 /\ o.retry_after # NoHeader
    THEN [kind |-> "retry", sleep |-> o.retry_after + RATELIMIT_EXTRA_SLEEP,
          bound |-> TRUE, exc |-> "none"]
    ELSE IF o.status = 401
    THEN [kind |-> "retry", sleep |-> UNAUTHORIZED_SLEEP, bound |-> TRUE,
          exc |-> "none"]
    ELSE [kind |-> "raise", sleep |-> 0, bound |-> TRUE, exc |-> "HTTPError"]

\* The if/elif chain on response.status_code and the except clause: what the
\* attempt does with the outcome o. "retry" falls through to
\* retry_attempts += 1 and the trailing sleep.
Classify(o) ==
    IF o.status = 0
    THEN [kind |-> "retry", sleep |-> 0, bound |-> FALSE, exc |-> "none"]
    ELSE IF o.status = 200
    THEN [kind |-> "return_body", sleep |-> 0, bound |-> TRUE, exc |-> "none"]
    ELSE IF o.status = 429
    THEN IF o.retry_after = NoHeader
         THEN [kind |-> "raise", sleep |-> 0, bound |-> TRUE, exc |-> "KeyError"]
         ELSE [kind |-> "retry", sleep |-> o.retry_after + RATELIMIT_EXTRA_SLEEP,
               bound |-> TRUE, exc |-> "none"]
    ELSE IF o.status = 401
    THEN [kind |-> "retry", sleep |-> UNAUTHORIZED_SLEEP, bound |-> TRUE,
          exc |-> "none"]
    ELSE IF o.status \in {500, 502, 503, 504}
    THEN [kind |-> "retry", sleep |-> SERVER_ERROR_SLEEP, bound |-> TRUE,
          exc |-> "none"]
    ELSE IF RaiseForStatus(o.status)
    THEN [kind |-> "raise", sleep |-> 0, bound |-> TRUE, exc |-> "HTTPError"]
    ELSE [kind |-> "return_none", sleep |-> 0, bound |-> TRUE, exc |-> "none"]

\* The expiry test never true: the stored token is always returned.
Expired_Never(tf) == FALSE

\* The expiry test with <= in place of <.
Expired_Inclusive(tf) == tf.ttl <= 0

\* get_access_token's test "expiry_timestamp < int(time.time())".
Expired(tf) == tf.ttl < 0

\* A new call of fitbit_data_request with the given headers argument.
Frame(h) ==
    [headers |-> h, token |-> 0, retry_attempts |-> 0, response_bound |-> FALSE,
     calls |-> 0, token_reads |-> 0, pc |-> "loop"]

Top == stack[Len(stack)]
SetTop(f) == [stack EXCEPT ![Len(stack)] = f]

\* time.sleep(d): the clock moves on, so the token's expiry comes d closer.
Sleep(d) ==
    /\ slept' = slept + d
    /\ token_file' = [token_file EXCEPT !.ttl = @ - d]

\* The innermost call ends with r: a returned value ("body", "None") or the
\* name of the exception it raises. The outermost call hands r to its caller.
\* A call made by refresh_fitbit_token hands it to line 191: a body is
\* unpacked and persisted, None fails the subscript with a TypeError, and an
\* exception passes through get_access_token and the call that wanted a
\* token, which catches only ConnectionError, and that around the request.
Finish(r) ==
    IF Len(stack) = 1
    THEN /\ stack' = <<>>
         /\ result' = r
    ELSE IF r = "body"
    THEN /\ stack' = [SubSeq(stack, 1, Len(stack) - 1)
                        EXCEPT ![Len(stack) - 1].pc = "persist"]
         /\ result' = result
    ELSE /\ stack' = <<>>
         /\ result' = IF r = "None" THEN "TypeError" ELSE r

\* The token file after open(TOKEN_FILE_PATH, "w") and before the write: it
\* exists and holds nothing.
EmptyFile == [state |-> "truncated", access_token |-> 0, ttl |-> 0]

\* What can stop refresh_fitbit_token between the open and the end of the
\* write: the write raising, or an interrupt of the process.
PersistFailures == {"OSError", "KeyboardInterrupt"}

\* refresh_fitbit_token passing no headers of its own.
RefreshHeaders_Empty == "empty"

\* The headers refresh_fitbit_token passes: Basic authorization.
RefreshHeaders == "basic"

ReqInit ==
    /\ stack = <<Frame("empty")>>
    /\ token_file \in
         {[state |-> "absent", access_token |-> 0, ttl |-> 0], EmptyFile}
           \cup {[state |-> "valid", access_token |-> 1, ttl |-> t] :
                   t \in InitialTTLs}
    /\ result = "pending"
    /\ slept = 0
    /\ outcomes = <<>>
    /\ sent_stale = FALSE
    /\ refresh_calls = 0
    /\ file0 = token_file
    /\ PartOff
    /\ OrchOff

\* Loop test passed, headers already non-empty: "headers or {...}" keeps them
\* and get_access_token is not called.
KeepHeaders ==
    /\ stack # <<>>
    /\ Top.pc = "loop"
    /\ Top.retry_attempts < MAX_RETRIES
    /\ Top.headers # "empty"
    /\ stack' = SetTop([Top EXCEPT !.pc = "send"])
    /\ UNCHANGED <<token_file, result, slept, outcomes, sent_stale>>
    /\ UNCHANGED <<refresh_calls, file0, partVars, orchVars>>

\* get_access_token with no token file: the except branch binds only
\* refresh_token, and the test of expiry_timestamp raises UnboundLocalError.
GetAccessTokenNoFile ==
    /\ stack # <<>>
    /\ Top.pc = "loop"
    /\ Top.retry_attempts < MAX_RETRIES
    /\ Top.headers = "empty"
    /\ token_file.state = "absent"
    /\ stack' = <<>>
    /\ result' = "UnboundLocalError"
    /\ UNCHANGED <<token_file, slept, outcomes, sent_stale>>
    /\ UNCHANGED <<refresh_calls, file0, partVars, orchVars>>

\* get_access_token with expiry_timestamp < now: refresh_fitbit_token posts
\* to oauth2/token through fitbit_data_request, with its own headers.
GetAccessTokenExpired ==
    /\ stack # <<>>
    /\ Len(stack) < MaxDepth
    /\ Top.pc = "loop"
    /\ Top.retry_attempts < MAX_RETRIES
    /\ Top.headers = "empty"
    /\ token_file.state = "valid"
    /\ Expired(token_file)
    /\ stack' = Append(SetTop([Top EXCEPT !.pc = "refreshing",
                                          !.token_reads = @ + 1]),
                       Frame(RefreshHeaders))
    /\ refresh_calls' = refresh_calls + 1
    /\ UNCHANGED <<token_file, result, slept, outcomes, sent_stale>>
    /\ UNCHANGED <<file0, partVars, orchVars>>

\* get_access_token with a token that has not expired: the stored one.
GetAccessTokenValid ==
    /\ stack # <<>>
    /\ Top.pc = "loop"
    /\ Top.retry_attempts < MAX_RETRIES
    /\ Top.headers = "empty"
    /\ token_file.state = "valid"
    /\ ~Expired(token_file)
    /\ stack' = SetTop([Top EXCEPT !.pc = "send", !.headers = "bearer",
                                   !.token = token_file.access_token,
                                   !.token_reads = @ + 1])
    /\ UNCHANGED <<token_file, result, slept, outcomes, sent_stale>>
    /\ UNCHANGED <<refresh_calls, file0, partVars, orchVars>>

\* get_access_token with a token file that holds no JSON: json.load raises
\* JSONDecodeError, which nothing catches.
GetAccessTokenBadFile ==
    /\ stack # <<>>
    /\ Top.pc = "loop"
    /\ Top.retry_attempts < MAX_RETRIES
    /\ Top.headers = "empty"
    /\ token_file.state = "truncated"
    /\ stack' = <<>>
    /\ result' = "JSONDecodeError"
    /\ UNCHANGED <<token_file, slept, outcomes, sent_stale>>
    /\ UNCHANGED <<refresh_calls, file0, partVars, orchVars>>

\* refresh_fitbit_token after its request returned a body: the tokens are
\* unpacked and open(TOKEN_FILE_PATH, "w") truncates the token file.
RefreshOpen ==
    /\ stack # <<>>
    /\ Top.pc = "persist"
    /\ token_file' = EmptyFile
    /\ stack' = SetTop([Top EXCEPT !.pc = "write"])
    /\ UNCHANGED <<result, slept, outcomes, sent_stale>>
    /\ UNCHANGED <<refresh_calls, file0, partVars, orchVars>>

\* open(TOKEN_FILE_PATH, "w") raises (the path cannot be written): the file
\* is as it was and the exception ends the call.
RefreshOpenFails ==
    /\ stack # <<>>
    /\ Top.pc = "persist"
    /\ stack' = <<>>
    /\ result' = "PermissionError"
    /\ UNCHANGED <<token_file, slept, outcomes, sent_stale>>
    /\ UNCHANGED <<refresh_calls, file0, partVars, orchVars>>

\* The write of the new tokens does not complete: the file stays as the open
\* left it.
RefreshWriteFails(cause) ==
    /\ stack # <<>>
    /\ Top.pc = "write"
    /\ stack' = <<>>
    /\ result' = cause
    /\ UNCHANGED <<token_file, slept, outcomes, sent_stale>>
    /\ UNCHANGED <<refresh_calls, file0, partVars, orchVars>>

\* refresh_fitbit_token writes the new tokens to the token file and returns;
\* the access token goes into the headers of the call that asked for it.
RefreshPersist ==
    /\ stack # <<>>
    /\ Top.pc = "write"
    /\ \E e \in ExpiresIn :
         token_file' = [state |-> "valid",
                        access_token |-> file0.access_token + refresh_calls,
                        ttl |-> e - EXPIRY_MARGIN]
    /\ stack' = SetTop([Top EXCEPT !.pc = "send", !.headers = "bearer",
                                   !.token = file0.access_token + refresh_calls])
    /\ UNCHANGED <<result, slept, outcomes, sent_stale>>
    /\ UNCHANGED <<refresh_calls, file0, partVars, orchVars>>

\* One requests.request and what the attempt does with its outcome.
Attempt(o) ==
    /\ stack # <<>>
    /\ Top.pc = "send"
    /\ outcomes' = IF Len(stack) = 1 THEN Append(outcomes, o) ELSE outcomes
    /\ sent_stale' = (sent_stale
                        \/ (Top.headers = "bearer" /\ token_file.ttl < 0))
    /\ LET c == Classify(o)
           f == [Top EXCEPT !.calls = @ + 1,
                            !.response_bound = @ \/ c.bound]
       IN  CASE c.kind = "retry" ->
                  /\ stack' = SetTop([f EXCEPT !.retry_attempts = @ + 1,
                                               !.pc = "loop"])
                  /\ Sleep(c.sleep + RETRY_SLEEP)
                  /\ UNCHANGED result
             [] c.kind = "return_body" ->
                  /\ Finish("body")
                  /\ UNCHANGED <<token_file, slept>>
             [] c.kind = "return_none" ->
                  /\ Finish("None")
                  /\ UNCHANGED <<token_file, slept>>
             [] c.kind = "raise" ->
                  /\ Finish(c.exc)
                  /\ UNCHANGED <<token_file, slept>>
    /\ UNCHANGED <<refresh_calls, file0, partVars, orchVars>>

\* The loop test fails: the "Retry limit exceeded" log line reads
\* response.text, and the function falls off its end, returning None. With no
\* response ever bound the log line raises UnboundLocalError.
RetryLimitExceeded ==
    /\ stack # <<>>
    /\ Top.pc = "loop"
    /\ Top.retry_attempts >= MAX_RETRIES
    /\ IF Top.response_bound THEN Finish("None") ELSE Finish("UnboundLocalError")
    /\ UNCHANGED <<token_file, slept, outcomes, sent_stale>>
    /\ UNCHANGED <<refresh_calls, file0, partVars, orchVars>>

ReqNext ==
    \/ KeepHeaders
    \/ GetAccessTokenNoFile
    \/ GetAccessTokenExpired
    \/ GetAccessTokenValid
    \/ GetAccessTokenBadFile
    \/ RefreshOpen
    \/ RefreshOpenFails
    \/ \E cause \in PersistFailures : RefreshWriteFails(cause)
    \/ RefreshPersist
    \/ \E o \in Outcomes : Attempt(o)
    \/ RetryLimitExceeded

SpecRequest == ReqInit /\ [][ReqNext]_vars

\* ------------------------------------------------------------ the process
Fns == {"intraday", "30d", "100d", "365d", "none", "battery", "activities"}

\* The calls startup_update makes when AUTO_DATE_RANGE is set, in order:
\* get_intraday_data_limit_1d for each date, then the six other fetches.
StartupCalls(n) ==
    [k \in 1..(n + 6) |->
        IF k <= n THEN "intraday"
        ELSE <<"30d", "100d", "365d", "none", "battery", "activities">>[k - n]]

\* The requests each fetch function makes, in order, by what it does with the
\* request's return value: "get" calls res.get(...), "truthy" tests "if res:",
\* "index" subscripts res by a key, "first" subscripts it by [0], and "named"
\* calls res.get(...) and names activity_name in its failure log line.
ReqKinds(fn) ==
    CASE fn = "intraday" -> <<"get", "get">>
      [] fn = "30d" -> <<"get", "get", "get", "truthy">>
      [] fn = "100d" -> <<"get">>
      [] fn = "365d" -> <<"get", "get", "get", "get",
                          "named", "named", "named", "index">>
      [] fn = "none" -> <<"truthy">>
      [] fn = "battery" -> <<"first">>
      [] fn = "activities" -> <<"truthy">>

\* What fitbit_data_request gives a fetch function: a body with the data the
\* function reads, a body with an empty list of it, None, or an exception.
RequestResults == {"data", "empty", "None", "raise"}

\* What the code after a request does with its result: "append" points, "log"
\* a failure and go on, or raise the exception named. nb: activity_name is
\* bound (an earlier request of the same loop had data).
Handle(kind, res, nb) ==
    IF res = "raise" THEN "HTTPError"
    ELSE IF res = "data" THEN "append"
    ELSE IF res = "None"
    THEN CASE kind = "get" -> "AttributeError"
           [] kind = "named" -> "AttributeError"
           [] kind = "index" -> "TypeError"
           [] kind = "first" -> "TypeError"
           [] kind = "truthy" -> "log"
    ELSE CASE kind = "first" -> "IndexError"
           [] kind = "named" -> IF nb THEN "log" ELSE "UnboundLocalError"
           [] OTHER -> "log"

\* write_points handing only the newest point to the database.
WritePoints_LastOnly(pts, ok) ==
    IF Len(pts) > 0
    THEN IF ok
         THEN [points |-> <<>>, written |-> <<pts[Len(pts)]>>,
               batch |-> <<pts[Len(pts)]>>, failed |-> FALSE, raised |-> FALSE]
         ELSE [points |-> pts, written |-> <<>>, batch |-> <<pts[Len(pts)]>>,
               failed |-> TRUE, raised |-> FALSE]
    ELSE [points |-> pts, written |-> <<>>, batch |-> <<>>,
          failed |-> FALSE, raised |-> FALSE]

\* write_points clearing the buffer whether or not the write succeeded.
WritePoints_ClearAlways(pts, ok) ==
    IF Len(pts) > 0
    THEN [points |-> <<>>, written |-> IF ok THEN pts ELSE <<>>, batch |-> pts,
          failed |-> ~ok, raised |-> FALSE]
    ELSE [points |-> pts, written |-> <<>>, batch |-> <<>>,
          failed |-> FALSE, raised |-> FALSE]

\* write_points: with points buffered, one write of them all; cleared after
\* the write returns, kept when it raises InfluxDBError, which is caught.
WritePoints(pts, ok) ==
    IF Len(pts) > 0
    THEN IF ok
         THEN [points |-> <<>>, written |-> pts, batch |-> pts,
               failed |-> FALSE, raised |-> FALSE]
         ELSE [points |-> pts, written |-> <<>>, batch |-> pts,
               failed |-> TRUE, raised |-> FALSE]
    ELSE [points |-> pts, written |-> <<>>, batch |-> <<>>,
          failed |-> FALSE, raised |-> FALSE]

\* A call of write_points against a database that accepts the write (ok) or
\* fails it.
Flush(ok) ==
    LET w == WritePoints(points, ok)
    IN  /\ points' = w.points
        /\ sink' = sink \o w.written
        /\ sink_failed' = (sink_failed \/ w.failed)
        /\ flush_log' = [called |-> TRUE, before |-> points, ok |-> ok,
                         after |-> w.points, raised |-> w.raised,
                         batch |-> w.batch]

InTry == pc.at \in {"poll", "job"}

\* An exception e leaves the current function. Inside the try of the polling
\* loop the finally clause runs before it ends the process; anywhere else
\* nothing catches it.
Raise(e) ==
    /\ exc' = e
    /\ pc' = IF InTry THEN Pc("finally", "", 0, FALSE, 0)
             ELSE Pc("exit", "", 0, FALSE, 0)

\* The gap each bulk family is partitioned with.
Span(fn) ==
    CASE fn = "365d" -> SPAN_365D
      [] fn = "100d" -> SPAN_100D
      [] fn = "30d" -> SPAN_30D

\* Where the process goes when the fetch function it is in returns.
AfterReturn ==
    CASE pc.at = "startup" ->
           IF pc.i < date_count + 6
           THEN Pc("startup", StartupCalls(date_count)[pc.i + 1], 1, FALSE,
                   pc.i + 1)
           ELSE Pc("poll", "", 0, FALSE, 0)
      [] pc.at = "job" -> Pc("poll", "", 0, FALSE, 0)
      [] pc.at = "bulk" ->
           IF pc.fn = "activities"
           THEN Pc("bulk_write", "", 0, FALSE, 0)
           ELSE Pc("bulk_run_pending", pc.fn, 0, FALSE, pc.i)

OrchInit ==
    /\ auto_date_range \in BOOLEAN
    /\ eager_annotations \in BOOLEAN
    /\ date_count \in 1..MaxRange
    /\ scheduled = FALSE
    /\ pc = IF auto_date_range
            THEN Pc("startup", StartupCalls(date_count)[1], 1, FALSE, 1)
            ELSE Pc("bulk_start", "", 0, FALSE, 0)
    /\ points = <<>>
    /\ next_id = 0
    /\ sink = <<>>
    /\ exc = "none"
    /\ interrupt_at = "none"
    /\ points_at_interrupt = <<>>
    /\ final_flush_calls = 0
    /\ final_batch = <<>>
    /\ flush_log = NoFlush
    /\ fetch_log = NoFetch
    /\ sink_failed = FALSE
    /\ end_date = 0
    /\ PartOff
    /\ ReqOff

\* One request of a fetch function and the code up to its next request.
\* startup_update returning to the module level is followed by
\* setup_schedulers.
FetchRequest(res) ==
    /\ pc.at \in {"startup", "job", "bulk"}
    /\ res = "data" => next_id < MaxPoints
    /\ LET kind == ReqKinds(pc.fn)[pc.req]
           eff == Handle(kind, res, pc.nb)
           next == IF pc.req < Len(ReqKinds(pc.fn))
                   THEN [pc EXCEPT !.req = @ + 1,
                                   !.nb = @ \/ (kind = "named" /\ eff = "append")]
                   ELSE AfterReturn
       IN  /\ fetch_log' = [fn |-> pc.fn, res |-> res, effect |-> eff]
           /\ IF eff \in {"append", "log"}
              THEN /\ pc' = next
                   /\ scheduled' = (scheduled \/ next.at = "poll")
                   /\ UNCHANGED exc
              ELSE /\ Raise(eff)
                   /\ UNCHANGED scheduled
           /\ IF eff = "append"
              THEN /\ points' = Append(points, next_id + 1)
                   /\ next_id' = next_id + 1
              ELSE UNCHANGED <<points, next_id>>
    /\ UNCHANGED <<end_date, auto_date_range, eager_annotations, date_count, sink,
                   interrupt_at, points_at_interrupt, final_flush_calls,
                   final_batch, flush_log, sink_failed>>
    /\ UNCHANGED <<partVars, reqVars>>

\* run_pending in the polling loop finds a fetch job due.
StartJob(fn) ==
    /\ pc.at = "poll"
    /\ pc' = Pc("job", fn, 1, FALSE, 0)
    /\ UNCHANGED <<end_date, auto_date_range, eager_annotations, date_count,
                   scheduled,
                   points, next_id, sink, exc, interrupt_at,
                   points_at_interrupt, final_flush_calls, final_batch,
                   flush_log, fetch_log, sink_failed>>
    /\ UNCHANGED <<partVars, reqVars>>

\* run_pending in the polling loop finds the write_points job due.
ScheduledFlush(ok) ==
    /\ pc.at = "poll"
    /\ Flush(ok)
    /\ IF WritePoints(points, ok).raised
       THEN Raise("InfluxDBError")
       ELSE UNCHANGED <<pc, exc>>
    /\ UNCHANGED <<end_date, auto_date_range, eager_annotations, date_count,
                   scheduled,
                   next_id, interrupt_at, points_at_interrupt,
                   final_flush_calls, final_batch, fetch_log>>
    /\ UNCHANGED <<partVars, reqVars>>

\* The polling loop after run_pending and time.sleep(30), on a new calendar
\* day: update_working_dates moves end_date (and start_date with it) to now.
UpdateWorkingDates ==
    /\ pc.at = "poll"
    /\ end_date < MaxRollover
    /\ end_date' = end_date + 1
    /\ UNCHANGED <<auto_date_range, eager_annotations, date_count, scheduled,
                   pc, points, next_id, sink, exc, interrupt_at,
                   points_at_interrupt, final_flush_calls, final_batch,
                   flush_log, fetch_log, sink_failed>>
    /\ UNCHANGED <<partVars, reqVars>>

\* KeyboardInterrupt. In the try of the polling loop "except
\* KeyboardInterrupt: pass" takes it and the finally clause follows; in
\* startup_update, which the module calls outside any try, it ends the process.
Interrupt ==
    /\ interrupt_at = "none"
    /\ pc.at \notin {"exit", "finally"}
    /\ points_at_interrupt' = points
    /\ IF InTry
       THEN /\ interrupt_at' = "polling"
            /\ pc' = Pc("finally", "", 0, FALSE, 0)
            /\ UNCHANGED exc
       ELSE /\ interrupt_at' = IF auto_date_range THEN "startup" ELSE "bulk"
            /\ pc' = Pc("exit", "", 0, FALSE, 0)
            /\ exc' = "KeyboardInterrupt"
    /\ UNCHANGED <<end_date, auto_date_range, eager_annotations, date_count,
                   scheduled,
                   points, next_id, sink, final_flush_calls, final_batch,
                   flush_log, fetch_log, sink_failed>>
    /\ UNCHANGED <<partVars, reqVars>>

\* The polling loop without its finally clause.
Finally_NoFlush(ok) ==
    /\ pc.at = "finally"
    /\ pc' = Pc("exit", "", 0, FALSE, 0)
    /\ UNCHANGED <<end_date, auto_date_range, eager_annotations, date_count,
                   scheduled,
                   points, next_id, sink, exc, interrupt_at,
                   points_at_interrupt, final_flush_calls, final_batch,
                   flush_log, fetch_log, sink_failed>>
    /\ UNCHANGED <<partVars, reqVars>>

\* The finally clause of the polling loop: write_points, then the process
\* ends (with the exception that left the loop, if it was not the interrupt).
Finally(ok) ==
    /\ pc.at = "finally"
    /\ Flush(ok)
    /\ final_flush_calls' = final_flush_calls + 1
    /\ final_batch' = WritePoints(points, ok).batch
    /\ pc' = Pc("exit", "", 0, FALSE, 0)
    /\ exc' = IF WritePoints(points, ok).raised THEN "InfluxDBError" ELSE exc
    /\ UNCHANGED <<end_date, auto_date_range, eager_annotations, date_count,
                   scheduled,
                   next_id, interrupt_at, points_at_interrupt, fetch_log>>
    /\ UNCHANGED <<partVars, reqVars>>

\* Bulk update, at "def do_bulk_update(funcname: function, ...)": function is
\* no name of the language, so an interpreter that evaluates annotations when
\* the def runs raises NameError there.
BulkDefNameError ==
    /\ pc.at = "bulk_start"
    /\ eager_annotations
    /\ pc' = Pc("exit", "", 0, FALSE, 0)
    /\ exc' = "NameError"
    /\ UNCHANGED <<end_date, auto_date_range, eager_annotations, date_count,
                   scheduled,
                   points, next_id, sink, interrupt_at, points_at_interrupt,
                   final_flush_calls, final_batch, flush_log, fetch_log,
                   sink_failed>>
    /\ UNCHANGED <<partVars, reqVars>>

\* Bulk update: the dates are read, the two local functions are defined, and
\* fetch_latest_activities(date_list[-1]) is called.
BulkBegin ==
    /\ pc.at = "bulk_start"
    /\ ~eager_annotations
    /\ pc' = Pc("bulk", "activities", 1, FALSE, 0)
    /\ UNCHANGED <<end_date, auto_date_range, eager_annotations, date_count,
                   scheduled,
                   points, next_id, sink, exc, interrupt_at,
                   points_at_interrupt, final_flush_calls, final_batch,
                   flush_log, fetch_log, sink_failed>>
    /\ UNCHANGED <<partVars, reqVars>>

\* Bulk update: self.write_points() after the activities, then
\* do_bulk_update(self.get_daily_data_limit_none, ...) begins.
BulkWrite(ok) ==
    /\ pc.at = "bulk_write"
    /\ Flush(ok)
    /\ IF WritePoints(points, ok).raised
       THEN Raise("InfluxDBError")
       ELSE /\ pc' = Pc("bulk", "none", 1, FALSE, 0)
            /\ UNCHANGED exc
    /\ UNCHANGED <<end_date, auto_date_range, eager_annotations, date_count,
                   scheduled,
                   next_id, interrupt_at, points_at_interrupt,
                   final_flush_calls, final_batch, fetch_log>>
    /\ UNCHANGED <<partVars, reqVars>>

\* do_bulk_update after funcname returned: run_pending() runs the jobs
\* setup_schedulers registered that are due. Then the for loop that called
\* do_bulk_update goes on; after get_daily_data_limit_none that is the first
\* for loop, over yield_dates_with_gap(date_list, 360).
BulkRunPending(ok) ==
    /\ pc.at = "bulk_run_pending"
    /\ IF scheduled
       THEN Flush(ok)
       ELSE UNCHANGED <<points, sink, sink_failed, flush_log>>
    /\ pc' = IF pc.fn = "none"
             THEN Pc("bulk_resume", "365d", 0, FALSE, -1 * SPAN_365D)
             ELSE Pc("bulk_resume", pc.fn, 0, FALSE, pc.i)
    /\ UNCHANGED <<end_date, auto_date_range, eager_annotations, date_count,
                   scheduled,
                   next_id, exc, interrupt_at, points_at_interrupt,
                   final_flush_calls, final_batch, fetch_log>>
    /\ UNCHANGED <<partVars, reqVars>>

\* A for loop of the bulk update takes its next window: the next chunk of
\* yield_dates_with_gap, or the next single day, and calls do_bulk_update.
BulkNextWindow ==
    /\ pc.at = "bulk_resume"
    /\ IF pc.fn = "intraday"
       THEN /\ pc.i < date_count
            /\ pc' = Pc("bulk", "intraday", 1, FALSE, pc.i + 1)
       ELSE LET r == GenNext(date_count, Span(pc.fn), pc.i)
            IN  /\ ~r.stop
                /\ pc' = Pc("bulk", pc.fn, 1, FALSE, r.start_index)
    /\ UNCHANGED <<end_date, auto_date_range, eager_annotations, date_count,
                   scheduled,
                   points, next_id, sink, exc, interrupt_at,
                   points_at_interrupt, final_flush_calls, final_batch,
                   flush_log, fetch_log, sink_failed>>
    /\ UNCHANGED <<partVars, reqVars>>

\* A for loop of the bulk update is exhausted: the next loop begins, or,
\* after the loop over single days, startup_update logs and returns, and the
\* module, with AUTO_DATE_RANGE unset, ends.
BulkLoopDone ==
    /\ pc.at = "bulk_resume"
    /\ IF pc.fn = "intraday"
       THEN ~(pc.i < date_count)
       ELSE GenNext(date_count, Span(pc.fn), pc.i).stop
    /\ pc' = CASE pc.fn = "365d" ->
                    Pc("bulk_resume", "100d", 0, FALSE, -1 * SPAN_100D)
               [] pc.fn = "100d" ->
                    Pc("bulk_resume", "30d", 0, FALSE, -1 * SPAN_30D)
               [] pc.fn = "30d" -> Pc("bulk_resume", "intraday", 0, FALSE, 0)
               [] pc.fn = "intraday" -> Pc("exit", "", 0, FALSE, 0)
    /\ UNCHANGED <<end_date, auto_date_range, eager_annotations, date_count,
                   scheduled,
                   points, next_id, sink, exc, interrupt_at,
                   points_at_interrupt, final_flush_calls, final_batch,
                   flush_log, fetch_log, sink_failed>>
    /\ UNCHANGED <<partVars, reqVars>>

Next ==
    \/ \E res \in RequestResults : FetchRequest(res)
    \/ \E fn \in Fns : StartJob(fn)
    \/ \E ok \in BOOLEAN : ScheduledFlush(ok)
    \/ UpdateWorkingDates
    \/ Interrupt
    \/ \E ok \in BOOLEAN : Finally(ok)
    \/ BulkDefNameError
    \/ BulkBegin
    \/ \E ok \in BOOLEAN : BulkWrite(ok)
    \/ \E ok \in BOOLEAN : BulkRunPending(ok)
    \/ BulkNextWindow
    \/ BulkLoopDone

Spec == OrchInit /\ [][Next]_vars

\* What the scheduling gives the polling process: a request returns or raises
\* (its loop is bounded), so a fetch function goes on to its end; and
\* run_pending, called every 30 seconds, runs the write_points job registered
\* for every minute, which again and again finds the database accepting.
Fairness ==
    /\ WF_vars(\E res \in RequestResults : FetchRequest(res))
    /\ SF_vars(ScheduledFlush(TRUE))

SpecLive == OrchInit /\ [][Next]_vars /\ Fairness

\* ------------------------------------------------------------ claims
\* C3: 2024-01-01..2024-01-10 with gap 3 yields exactly the three chunks
\* (01-01,01-04), (01-04,01-07), (01-07,01-10), in that order, and no other.
C3_TenDaysGapThree ==
    (gen_pc = "done" /\ n_days = 10 /\ gap = 3)
        => chunks = << <<1, 4>>, <<4, 7>>, <<7, 10>> >>

\* What the generator does yield for that range: a fourth chunk (01-10,01-10).
C3_Observed ==
    gen_pc = "done" /\ n_days = 10 /\ gap = 3
        /\ chunks = << <<1, 4>>, <<4, 7>>, <<7, 10>>, <<10, 10>> >>

\* C4: for every n >= 1 and gap >= 1 the chunks cover the range with no gap:
\* the first starts at d[0], the last ends at d[n-1], and each chunk's end
\* date is the next chunk's start date.
C4_CoversWithoutGaps ==
    gen_pc = "done" =>
        /\ Len(chunks) >= 1
        /\ chunks[1][1] = DateAt(0)
        /\ chunks[Len(chunks)][2] = DateAt(n_days - 1)
        /\ \A i \in 1..(Len(chunks) - 1) : chunks[i][2] = chunks[i + 1][1]

\* C4 holds where the generator steps more than once.
C4_Witness ==
    gen_pc = "done" /\ n_days = 8 /\ gap = 3 /\ Len(chunks) = 3

\* C1: a fetch whose request returned None logs the failure and skips the
\* metric, and the process does not end on it.
C1_AbsentResultSkipped ==
    fetch_log.res = "None" =>
        /\ fetch_log.effect = "log"
        /\ exc \notin {"AttributeError", "TypeError"}

\* C2: in the bulk update, with a database that accepts every write, the
\* buffer is empty whenever a window's fetch starts and when the sweep ends.
C2_BulkFlushedBetweenWindows ==
    (/\ ~auto_date_range
     /\ ~sink_failed
     /\ \/ pc.at = "bulk" /\ pc.fn # "activities" /\ pc.req = 1
        \/ pc.at = "exit" /\ exc = "none")
        => points = <<>>

\* The statuses and the connection failure the attempt loop retries.
Retried(o) ==
    \/ o = ConnectionError
    \/ o.status \in {401, 500, 502, 503, 504}
    \/ o.status = 429 /\ o.retry_after # NoHeader

\* C5: a call whose three attempts each ended in a connection failure or a
\* retried status returns None and does not raise, three connection failures
\* included.
C5_ExhaustedReturnsAbsent ==
    (/\ result # "pending"
     /\ Len(outcomes) = MAX_RETRIES
     /\ \A i \in 1..Len(outcomes) : Retried(outcomes[i]))
        => result = "None"

\* C6: every attempt of a call made without explicit headers obtains the
\* access token anew, and no attempt carries a token past its expiry.
C6_TokenObtainedEachAttempt ==
    /\ \A i \in 1..Len(stack) :
         (stack[i].headers # "basic" /\ stack[i].pc = "loop")
            => stack[i].token_reads = stack[i].calls
    /\ ~sent_stale

\* C7: a process that ended after an interrupt, in whatever phase it came,
\* made the final call of write_points.
C7_InterruptAlwaysFlushes ==
    (pc.at = "exit" /\ interrupt_at # "none") => final_flush_calls = 1

\* C8: a polling process that ended after an interrupt called write_points
\* once more, and that call handed the points buffered at the interrupt to
\* the database.
C8_PollingInterruptFlushes ==
    (pc.at = "exit" /\ interrupt_at = "polling") =>
        /\ final_flush_calls = 1
        /\ points_at_interrupt # <<>> => final_batch = points_at_interrupt

C8_Witness ==
    /\ pc.at = "exit"
    /\ interrupt_at = "polling"
    /\ Len(points_at_interrupt) >= 2
    /\ final_batch = points_at_interrupt

\* C9: write_points against a failing database keeps the same points in the
\* same order and raises nothing; against an accepting one it leaves none.
C9_FlushKeepsOrClears ==
    flush_log.called =>
        /\ ~flush_log.raised
        /\ flush_log.ok => flush_log.after = <<>>
        /\ ~flush_log.ok => flush_log.after = flush_log.before

C9_Witness ==
    /\ flush_log.called
    /\ ~flush_log.ok
    /\ Len(flush_log.before) >= 2
    /\ flush_log.after = flush_log.before
    /\ points = flush_log.before

\* The call is over with None, or stands at the failed loop test after which
\* it returns None.
ReturnsAbsent ==
    \/ result = "None"
    \/ /\ result = "pending"
       /\ Len(stack) = 1
       /\ Top.pc = "loop"
       /\ Top.retry_attempts = MAX_RETRIES
       /\ Top.response_bound

\* C10: three consecutive responses, each a 429, a 401 or a 5xx, make the
\* call issue exactly three HTTP calls and return None without raising.
C10_ThreeRetryableReturnAbsent ==
    (/\ Len(outcomes) >= MAX_RETRIES
     /\ \A i \in 1..MAX_RETRIES :
          outcomes[i].status \in ({429, 401} \cup (500..599)))
        => (Len(outcomes) = MAX_RETRIES /\ ReturnsAbsent)

\* C10 as amended: three consecutive responses, each a 401, a 500, 502, 503
\* or 504, or a 429 with a Retry-After header, make the call issue exactly
\* three HTTP calls and return None without raising.
C10_ThreeRetriedReturnAbsent ==
    (/\ Len(outcomes) >= MAX_RETRIES
     /\ \A i \in 1..MAX_RETRIES :
          outcomes[i] # ConnectionError /\ Retried(outcomes[i]))
        => (Len(outcomes) = MAX_RETRIES /\ ReturnsAbsent)

C10_Witness ==
    /\ result = "None"
    /\ outcomes = <<[status |-> 500, retry_after |-> NoHeader],
                    [status |-> 500, retry_after |-> NoHeader],
                    [status |-> 500, retry_after |-> NoHeader]>>
\* A fetch that raised on the None its request returned, ending the process.
C1_Observed ==
    /\ fetch_log.res = "None"
    /\ fetch_log.effect = "AttributeError"
    /\ pc.at = "exit"
    /\ exc = "AttributeError"

\* Three connection failures: the call raised instead of returning None.
C5_Observed ==
    /\ outcomes = <<ConnectionError, ConnectionError, ConnectionError>>
    /\ result = "UnboundLocalError"

\* An interrupt in startup_update with points buffered: no final flush.
C7_Observed ==
    /\ pc.at = "exit"
    /\ interrupt_at = "startup"
    /\ points_at_interrupt # <<>>
    /\ points = points_at_interrupt
    /\ final_flush_calls = 0
\* The step in which the outermost call makes an HTTP call with outcome o.
OuterCall(o) == Len(stack) = 1 /\ outcomes' = Append(outcomes, o)

\* C11: a status that is not 2xx, 429, 401 or 5xx makes the call raise on
\* that attempt, with no further attempt and no sleep.
C11_OtherStatusRaises ==
    [][\A o \in Outcomes :
         (/\ OuterCall(o)
          /\ o.status # 0
          /\ o.status \notin (200..299) \cup {429, 401} \cup (500..599))
            => (result' = "HTTPError" /\ stack' = <<>> /\ slept' = slept)]_vars

\* C11 as amended: a 4xx status other than 401 and 429 makes the call raise
\* HTTPError on that attempt, a 3xx status makes it return None on that
\* attempt; in both cases there is no further attempt and no sleep.
C11_OtherStatusAborts ==
    [][\A o \in Outcomes :
         (/\ OuterCall(o)
          /\ o.status \in (300..499) \ {429, 401})
            => /\ result' = IF o.status >= 400 THEN "HTTPError" ELSE "None"
               /\ stack' = <<>>
               /\ slept' = slept]_vars

C11_Witness ==
    /\ result = "HTTPError"
    /\ Len(outcomes) = 2
    /\ outcomes[1] = ConnectionError
    /\ outcomes[2].status = 404
    /\ slept = RETRY_SLEEP
\* The outermost call counts the attempt and goes back to the loop test
\* after sleeping at least d seconds.
RetriedAfter(d) ==
    /\ result' = "pending"
    /\ Len(stack') = 1
    /\ stack'[1].pc = "loop"
    /\ stack'[1].retry_attempts = stack[1].retry_attempts + 1
    /\ slept' >= slept + d

\* C12: every status in 500..599 makes the call sleep 120 seconds and retry,
\* counted as one attempt; none aborts the call.
C12_Every5xxRetried ==
    [][\A o \in Outcomes :
         (OuterCall(o) /\ o.status \in 500..599)
            => RetriedAfter(SERVER_ERROR_SLEEP)]_vars

\* C12 as amended: each of 500, 502, 503 and 504 makes the call sleep 120
\* seconds (and the 30 of every retry) and retry, counted as one attempt;
\* any other 5xx status aborts the call with HTTPError, without a sleep.
C12_Listed5xxRetried ==
    [][\A o \in Outcomes :
         /\ (OuterCall(o) /\ o.status \in {500, 502, 503, 504})
               => /\ RetriedAfter(SERVER_ERROR_SLEEP)
                  /\ slept' = slept + SERVER_ERROR_SLEEP + RETRY_SLEEP
         /\ (OuterCall(o) /\ o.status \in (500..599) \ {500, 502, 503, 504})
               => (result' = "HTTPError" /\ stack' = <<>> /\ slept' = slept)
      ]_vars

C12_Witness ==
    /\ result = "pending"
    /\ Len(outcomes) = 1
    /\ outcomes[1].status = 503
    /\ Len(stack) = 1
    /\ stack[1].retry_attempts = 1
    /\ slept = SERVER_ERROR_SLEEP + RETRY_SLEEP
\* get_access_token has just returned to the first attempt of the outermost
\* call.
TokenReturned ==
    /\ Len(stack) = 1
    /\ stack[1].pc = "send"
    /\ stack[1].calls = 0

\* C13: with a stored expiry in the past get_access_token calls the refresh
\* once and returns the new access token; with one in the future it calls it
\* not at all and returns the stored access token.
C13_RefreshOnceIfExpired ==
    /\ (file0.state = "valid" /\ file0.ttl # 0) => refresh_calls <= 1
    /\ (TokenReturned /\ file0.ttl < 0) =>
          /\ refresh_calls = 1
          /\ stack[1].token = file0.access_token + 1
          /\ token_file.access_token = file0.access_token + 1
    /\ (TokenReturned /\ file0.ttl > 0) =>
          /\ refresh_calls = 0
          /\ stack[1].token = file0.access_token
          /\ token_file.access_token = file0.access_token

\* An expired token refreshed on the second attempt of the refresh request.
C13_Witness ==
    /\ TokenReturned
    /\ file0.ttl < 0
    /\ refresh_calls = 1
    /\ slept > 0
    /\ stack[1].token = 2

\* C14: a stored expiry equal to now is treated as expired: get_access_token
\* refreshes before it returns a token.
C14_BoundaryRefreshes ==
    (TokenReturned /\ file0.ttl = 0) => refresh_calls = 1

\* C14 as amended: a stored expiry equal to now is not treated as expired:
\* get_access_token returns the stored token without a refresh.
C14_BoundaryNotExpired ==
    (TokenReturned /\ file0.ttl = 0) =>
        /\ refresh_calls = 0
        /\ stack[1].token = file0.access_token
        /\ token_file = file0

C14_Witness ==
    /\ TokenReturned
    /\ file0.ttl = 0
    /\ refresh_calls = 0
    /\ stack[1].headers = "bearer"
\* C15: when the write of the new credential does not complete, the token
\* file still holds the credential it held before.
C15_PersistAtomic ==
    (file0.state = "valid"
        /\ result \in PersistFailures \cup {"PermissionError"})
        => (token_file.state = "valid"
               /\ token_file.access_token = file0.access_token)

\* The write failed after the open: the token file is left empty.
C15_Observed ==
    /\ file0.state = "valid"
    /\ result = "OSError"
    /\ token_file = EmptyFile
\* C16: when the devices request returns an empty list, get_battery_level
\* appends no point, logs a failure and returns, and the process goes on.
C16_EmptyDevicesSkipped ==
    (fetch_log.fn = "battery" /\ fetch_log.res = "empty") =>
        /\ fetch_log.effect = "log"
        /\ exc # "IndexError"

\* get_battery_level subscripting the empty list, ending the process.
C16_Observed ==
    /\ fetch_log.fn = "battery"
    /\ fetch_log.res = "empty"
    /\ fetch_log.effect = "IndexError"
    /\ pc.at = "exit"
    /\ exc = "IndexError"

RateLimited5Then200 ==
    outcomes = <<[status |-> 429, retry_after |-> 5],
                 [status |-> 200, retry_after |-> NoHeader]>>

\* C17: after a 429 with Retry-After = r the call sleeps at least r + 15
\* seconds before its next attempt; with the responses 429 (Retry-After 5)
\* and 200 it has slept at least 20 seconds and returns the body of the 200.
C17_RateLimitSleeps ==
    /\ [](RateLimited5Then200 => (result = "body" /\ slept >= 5 + 15))
    /\ [][\A o \in Outcomes :
            (OuterCall(o) /\ o.status = 429 /\ o.retry_after # NoHeader)
                => (RetriedAfter(o.retry_after + 15)
                      /\ slept' >= slept + o.retry_after + 15)]_vars

\* C17 holds where both scripted responses have been received, and where a
\* longer Retry-After has been waited for.
C17_Witness ==
    /\ RateLimited5Then200
    /\ result = "body"
    /\ slept = 5 + RATELIMIT_EXTRA_SLEEP + RETRY_SLEEP

\* C18: every chunk spans at most gap + 1 days (end index - start index <=
\* gap), and with the bulk spans 360, 98 and 28 no chunk has more days than
\* the fetch it is passed to allows in one query.
C18_ChunkWithinSpan ==
    \A i \in 1..Len(chunks) :
        /\ chunks[i][1] <= chunks[i][2]
        /\ chunks[i][2] - chunks[i][1] <= gap
        /\ gap \in BulkSpans
              => chunks[i][2] - chunks[i][1] + 1 <= QueryLimit(gap)

\* C18 holds where a bulk span cuts a longer range into full chunks.
C18_Witness ==
    /\ gen_pc = "done"
    /\ n_days = 400
    /\ gap = SPAN_100D
    /\ Len(chunks) = 5
    /\ chunks[1] = <<1, 99>>
    /\ chunks[5] = <<393, 400>>

\* C19: a range of exactly one day yields exactly one chunk, (d[0], d[0]),
\* whatever the span.
C19_SingleDayOneChunk ==
    n_days = 1 =>
        /\ Len(chunks) <= 1
        /\ \A i \in 1..Len(chunks) : chunks[i] = <<DateAt(0), DateAt(0)>>
        /\ gen_pc = "done" => Len(chunks) = 1

\* C19 holds where the generator has run to its end over one day.
C19_Witness ==
    /\ gen_pc = "done"
    /\ n_days = 1
    /\ gap = SPAN_30D
    /\ chunks = << <<1, 1>> >>

\* C20: the request that refresh_fitbit_token makes never calls
\* get_access_token, on its first attempt or on a retry, so no refresh starts
\* while another is in progress.
C20_NoNestedRefresh ==
    /\ Len(stack) <= 2
    /\ \A i \in 2..Len(stack) :
         /\ stack[i].headers = "basic"
         /\ stack[i].token_reads = 0
         /\ stack[i].pc \in {"loop", "send"}
    /\ Len(stack) = 2 => (stack[1].pc \in {"refreshing", "persist", "write"}
                            /\ refresh_calls = 1)

\* C20 holds where the refresh request is about to be sent again on a retry.
C20_Witness ==
    /\ Len(stack) = 2
    /\ stack[2].retry_attempts = 2
    /\ stack[2].calls = 2
    /\ stack[2].pc = "send"
    /\ refresh_calls = 1
\* C21: every status in 200..299 makes the call return the parsed body at
\* once, ending the loop.
C21_Every2xxReturnsBody ==
    [][\A o \in Outcomes :
         (OuterCall(o) /\ o.status \in 200..299)
             => (result' = "body" /\ stack' = <<>>)]_vars

\* C21, amended: a 200 makes the call return the parsed body at once; any
\* other status in 200..299 makes it return None at once. Neither sleeps or
\* retries.
C21_Only200ReturnsBody ==
    [][\A o \in Outcomes :
         (OuterCall(o) /\ o.status \in 200..299)
             => /\ result' = IF o.status = 200 THEN "body" ELSE "None"
                /\ stack' = <<>>
                /\ slept' = slept]_vars

\* A 204 after a retried 401: the call has returned None.
C21_Witness ==
    /\ Len(outcomes) = 2
    /\ outcomes[1].status = 401
    /\ outcomes[2].status = 204
    /\ result = "None"
    /\ stack = <<>>

\* The statuses the if/elif chain retries on.
RetriedStatuses == {401, 429, 500, 502, 503, 504}

C24_BufferLeavesOnlyBySuccessfulWrite ==
    /\ [](flush_log.called => flush_log.batch = flush_log.before)
    /\ [][/\ points' # points
             => \/ /\ Len(points') = Len(points) + 1
                   /\ SubSeq(points', 1, Len(points)) = points
                   /\ sink' = sink
                \/ /\ points' = <<>>
                   /\ sink' = sink \o points
                   /\ flush_log'.ok
          /\ sink' # sink => (points # <<>> /\ points' = <<>>
                                /\ sink' = sink \o points)]_vars

\* C24 holds where a failed flush kept two points, a third was appended, and
\* the next flush wrote all three in order.
C24_Witness ==
    /\ sink_failed
    /\ flush_log.called
    /\ flush_log.ok
    /\ flush_log.before = <<1, 2, 3>>
    /\ flush_log.batch = <<1, 2, 3>>
    /\ sink = <<1, 2, 3>>
    /\ points = <<>>

\* C25: with no token file, get_access_token refreshes with the refresh
\* token typed in, writes the token file, and returns the new access token.
C25_NoFileRefreshes ==
    file0.state = "absent" =>
        /\ result # "UnboundLocalError"
        /\ TokenReturned => (/\ refresh_calls = 1
                             /\ token_file.state = "valid"
                             /\ stack[1].token = token_file.access_token)

\* With no token file the call ends in get_access_token, before any refresh
\* and any request.
C25_Observed ==
    /\ file0.state = "absent"
    /\ token_file.state = "absent"
    /\ result = "UnboundLocalError"
    /\ refresh_calls = 0
    /\ outcomes = <<>>
\* C23: a bulk update that is not interrupted ends only after the last
\* window of the last family, the intraday fetch of the last day, whatever
\* the API answers.
C23_BulkEndsAfterLastWindow ==
    (~auto_date_range /\ pc.at = "exit" /\ interrupt_at = "none") =>
        /\ exc = "none"
        /\ fetch_log.fn = "intraday"

\* A bulk update ended in a 365-day window on a request that returned None:
\* the 100-day, 30-day and intraday families were never fetched.
C23_Observed ==
    /\ ~auto_date_range
    /\ ~eager_annotations
    /\ interrupt_at = "none"
    /\ pc.at = "exit"
    /\ exc = "AttributeError"
    /\ fetch_log.fn = "365d"
    /\ fetch_log.res = "None"

\* C26: in the polling process, a point in the buffer is in time in the
\* database, unless a fetch or a flush raised or the process was interrupted.
C26_BufferedPointsReachSink ==
    \A id \in 1..MaxPoints :
        (auto_date_range /\ \E k \in 1..Len(points) : points[k] = id)
            ~> \/ \E k \in 1..Len(sink) : sink[k] = id
               \/ exc # "none"
               \/ interrupt_at # "none"

\* C26 holds where a flush failed, the points stayed, and a later flush of
\* the polling loop wrote them.
C26_Witness ==
    /\ auto_date_range
    /\ pc.at = "poll"
    /\ exc = "none"
    /\ interrupt_at = "none"
    /\ sink_failed
    /\ flush_log.ok
    /\ flush_log.before = <<1, 2>>
    /\ sink = <<1, 2>>
    /\ points = <<>>
====
